---- MODULE Spec2Model ----
(***************************************************************************)
(* The docker plugin of letce2 (plugin.py): the four sub-commands build,   *)
(* start, stop and clean as step-level state machines over the host's      *)
(* filesystem (lock file, compose file, persist/<node> workspaces,         *)
(* manifest), the container group, the host network scripts and the        *)
(* real-time scheduling sysctl.  Every external operation is one step      *)
(* whose outcome is drawn from what subprocess/pathlib can give back:      *)
(* "ok", a non-zero exit status, or an exception raised at launch.         *)
(***************************************************************************)
EXTENDS Integers, Sequences, FiniteSets, TLC

VARIABLES
    lock_file,            \* BOOLEAN: Path(args['lock_file']).exists()
    compose_file,         \* BOOLEAN: Path("host/docker-compose.yml").exists()
    persist,              \* set of nodes whose persist/<node> directory exists
    manifest,             \* node set last handed to nodes_to_manifest
    containers,           \* BOOLEAN: the compose group is up
    sched_rt_runtime_us,  \* value of kernel.sched_rt_runtime_us
    hostnet,              \* last host network script that succeeded:
                          \* "idle" (none, or control stop), "prestart", "bridge", "start"
    now,                  \* time.time(), in seconds
    pc,                   \* per invocation: the statement about to run
    args,                 \* per invocation: sub-command and its arguments
    idx,                  \* per invocation: position of the running for-loop
    start_utc,            \* per invocation: the local variable start_utc
    calls,                \* per invocation: external operations performed so far
    status,               \* per invocation: exit status and the reason for it
    pre,                  \* per invocation: did the lock file exist when it was invoked
    created               \* non-forced starts that touched the lock since the last unlink

fsvars   == <<lock_file, compose_file, persist, manifest>>
hostvars == <<containers, sched_rt_runtime_us, hostnet>>
procvars == <<pc, args, idx, start_utc, calls, status, pre>>
vars     == <<lock_file, compose_file, persist, manifest, containers,
              sched_rt_runtime_us, hostnet, now, pc, args, idx,
              start_utc, calls, status, pre, created>>

\* ------------------------------------------------------------------ bounds
MaxTime == 1          \* the clock stops advancing here

\* ------------------------------------------------------- program constants
SchedDefault == 950000     \* kernel.sched_rt_runtime_us restored by stop
SchedRelaxed == -1         \* kernel.sched_rt_runtime_us set by start
DefaultDelay == 40         \* --scenario-delay default

Nodes     == {"host", "a", "b"}
Procs     == {1, 2}        \* controller invocations that may be alive together
SeqProcs  == {1}           \* one operator shell: invocations one after another
Delays    == {DefaultDelay}
NoInstant == [days |-> -1, hours |-> 0, minutes |-> 0, seconds |-> 0]

\* Duplicate-free node lists (node identifiers are unique within a run).
NodeLists ==
    {<<"host", "a", "b">>, <<"b", "a">>, <<"a", "host">>, <<"host">>}

\* Exclusion filters given to clean.
Excludes == {{}, {"b"}}

Range(s) == {s[i] : i \in DOMAIN s}

\* time.strftime("%a, %d %b %Y %H:%M:%S +0000", time.gmtime(t)): the broken-down
\* UTC time of t seconds (the date fields are carried as the day number).
strftime_gmtime(t) ==
    [days    |-> t \div 86400,
     hours   |-> (t % 86400) \div 3600,
     minutes |-> (t % 3600) \div 60,
     seconds |-> t % 60]

\* `os.path.exists(lock) and not force` of build, start and clean.
BuildBlocked(exists, force) == exists /\ ~force
StartBlockedInverted(exists, force) == exists /\ force
StartBlocked(exists, force) == exists /\ ~force
CleanBlockedDespiteForce(exists, force) == exists
CleanBlocked(exists, force) == exists /\ ~force

\* subprocess.run(..., check=True): statement reached after each outcome of up.
UpNextUnchecked(result) == "start_touch"
UpNext(result) == IF result = "ok" THEN "start_touch" ELSE "done"

\* The instant handed to a host script or node initializer: the local start_utc.
RecomputedInstant(p) == strftime_gmtime(now + args[p].delay)
PassedInstant(p) == start_utc[p]

\* subprocess.Popen(['docker', 'exec', ...]): the child is spawned whatever the
\* state of the container; its failure only shows in the log file.
PopenWaitsForChild(reach) == IF reach = "unreachable" THEN "raised" ELSE "spawned"
Popen(reach) == "spawned"

\* subprocess.run without check=True: only an exception at launch is raised.
RunRaisesOnFailure(result) == result # "ok"
RunRaises(result) == result = "unlaunchable"

Call(op, node, utc, result) ==
    [op |-> op, node |-> node, utc |-> utc, result |-> result]

NoArgs == [sub |-> "none", force |-> FALSE, nodes |-> <<>>,
           exclude |-> {}, delay |-> 0]
NoStatus == [code |-> -1, why |-> "running"]

Init ==
    /\ lock_file = FALSE
    /\ compose_file \in BOOLEAN
    /\ persist = {}
    /\ manifest = {}
    /\ containers = FALSE
    /\ sched_rt_runtime_us = SchedDefault
    /\ hostnet = "idle"
    /\ now = 0
    /\ pc = [p \in Procs |-> "idle"]
    /\ args = [p \in Procs |-> NoArgs]
    /\ idx = [p \in Procs |-> 1]
    /\ start_utc = [p \in Procs |-> NoInstant]
    /\ calls = [p \in Procs |-> <<>>]
    /\ status = [p \in Procs |-> NoStatus]
    /\ pre = [p \in Procs |-> FALSE]
    /\ created = 0

\* sys.exit(code), or the interpreter ending after an uncaught exception.
Exit(p, code, why) ==
    /\ pc' = [pc EXCEPT ![p] = "done"]
    /\ status' = [status EXCEPT ![p] = [code |-> code, why |-> why]]

Goto(p, label) ==
    /\ pc' = [pc EXCEPT ![p] = label]
    /\ UNCHANGED status

Log(p, c) == calls' = [calls EXCEPT ![p] = Append(@, c)]

\* A new controller process: process() dispatching on plugin_subcommand.
Invoke(p, a, first) ==
    /\ pc' = [pc EXCEPT ![p] = first]
    /\ args' = [args EXCEPT ![p] = a]
    /\ idx' = [idx EXCEPT ![p] = 1]
    /\ start_utc' = [start_utc EXCEPT ![p] = NoInstant]
    /\ calls' = [calls EXCEPT ![p] = <<>>]
    /\ status' = [status EXCEPT ![p] = NoStatus]
    /\ pre' = [pre EXCEPT ![p] = lock_file]
    /\ UNCHANGED <<fsvars, hostvars, now, created>>

\* The controller process is gone: its locals go with it, what it did to the
\* host stays.
Reap(p) ==
    /\ pc[p] = "done"
    /\ Invoke(p, NoArgs, "idle")

Tick ==
    /\ now < MaxTime
    /\ now' = now + 1
    /\ UNCHANGED <<fsvars, hostvars, procvars, created>>

\* ------------------------------------------------------------------- start
InvokeStart(p, ready, lists) ==
    /\ pc[p] \in ready
    /\ \E nodes \in lists, force \in BOOLEAN, delay \in Delays :
          Invoke(p, [NoArgs EXCEPT !.sub = "start", !.force = force,
                                   !.nodes = nodes, !.delay = delay],
                 "start_lock")

StartLockCheck(p) ==
    /\ pc[p] = "start_lock"
    /\ IF StartBlocked(lock_file, args[p].force)
          THEN Exit(p, 1, "LockHeld")
          ELSE Goto(p, "start_mkdir")
    /\ UNCHANGED <<fsvars, hostvars, now, args, idx, start_utc, calls, pre, created>>

\* One iteration of `for node in nodes: Path(persist/node/var/...).mkdir(...)`:
\* with exist_ok an existing tree is left as it is ("exists"); a raising mkdir
\* is not caught and may leave persist/<node> partly made.
\* Path(f'persist/{node}/var/...').mkdir(parents=True, exist_ok=True): the
\* node's tree is added, every directory already there is kept.
MkdirFromScratch(existing, node) == {node}
Mkdir(existing, node) == existing \cup {node}

StartMkdir(p) ==
    /\ pc[p] = "start_mkdir"
    /\ IF idx[p] > Len(args[p].nodes)
          THEN /\ Goto(p, "start_compose")
               /\ idx' = [idx EXCEPT ![p] = 1]
               /\ UNCHANGED <<persist, calls>>
          ELSE LET node == args[p].nodes[idx[p]] IN
               \E result \in {IF node \in persist THEN "exists" ELSE "created",
                               "raised"} :
                  /\ Log(p, Call("mkdir", node, NoInstant, result))
                  /\ IF result # "raised"
                        THEN /\ persist' = Mkdir(persist, node)
                             /\ idx' = [idx EXCEPT ![p] = @ + 1]
                             /\ Goto(p, "start_mkdir")
                        ELSE /\ persist' \in {persist, Mkdir(persist, node)}
                             /\ UNCHANGED idx
                             /\ Exit(p, 1, "Traceback")
    /\ UNCHANGED <<lock_file, compose_file, manifest, hostvars, now, args,
                   start_utc, pre, created>>

StartComposeCheck(p) ==
    /\ pc[p] = "start_compose"
    /\ IF ~compose_file
          THEN Exit(p, 1, "MissingGroupDefinition")
          ELSE Goto(p, "start_up")
    /\ UNCHANGED <<fsvars, hostvars, now, args, idx, start_utc, calls, pre, created>>

\* subprocess.run(['docker', 'compose', ..., 'up', '-d'], check=True)
StartUp(p) ==
    /\ pc[p] = "start_up"
    /\ \E result \in {"ok", "nonzero", "unlaunchable"} :
          /\ Log(p, Call("up", "", NoInstant, result))
          /\ containers' = (IF result = "ok" THEN TRUE ELSE containers)
          /\ IF UpNext(result) = "done"
                THEN Exit(p, 1, IF result = "nonzero"
                                   THEN "ContainerOperationFailed" ELSE "Error")
                ELSE Goto(p, UpNext(result))
    /\ UNCHANGED <<fsvars, sched_rt_runtime_us, hostnet, now, args, idx,
                   start_utc, pre, created>>

\* Path(lock).parent.mkdir(...); Path(lock).touch()  -- still inside the try
StartTouch(p) ==
    /\ pc[p] = "start_touch"
    /\ \E result \in {"ok", "raised"} :
          /\ Log(p, Call("touch", "", NoInstant, result))
          /\ IF result = "ok"
                THEN /\ lock_file' = TRUE
                     /\ created' = IF args[p].force THEN created ELSE created + 1
                     /\ Goto(p, "start_time")
                ELSE /\ UNCHANGED <<lock_file, created>>
                     /\ Exit(p, 1, "Error")
    /\ UNCHANGED <<compose_file, persist, manifest, hostvars, now, args, idx,
                   start_utc, pre>>

\* start_utc = time.strftime(..., time.gmtime(time.time() + scenario_delay))
StartTime(p) ==
    /\ pc[p] = "start_time"
    /\ start_utc' = [start_utc EXCEPT ![p] = strftime_gmtime(now + args[p].delay)]
    /\ Log(p, Call("strftime", "", strftime_gmtime(now + args[p].delay), "ok"))
    /\ Goto(p, "start_prestart")
    /\ UNCHANGED <<fsvars, hostvars, now, args, idx, pre, created>>

\* `except Exception` of the host try-block: print and sys.exit(1); nothing is
\* undone, the lock file stays as it is.
HandlerRollsBack(exists) == FALSE
HandlerLeavesLock(exists) == exists

\* One of the four subprocess.run calls of the host try-block.
HostStep(p, here, op, utc, next) ==
    /\ pc[p] = here
    /\ \E result \in {"ok", "nonzero", "unlaunchable"} :
          /\ Log(p, Call(op, "", utc, result))
          /\ hostnet' = (IF result = "ok" /\ op \in {"prestart", "bridge", "start"}
                           THEN op ELSE hostnet)
          /\ sched_rt_runtime_us' =
                (IF result = "ok" /\ op = "sysctl" THEN SchedRelaxed
                                                   ELSE sched_rt_runtime_us)
          /\ IF RunRaises(result)
                THEN /\ Exit(p, 1, "HostOperationFailed")
                     /\ lock_file' = HandlerLeavesLock(lock_file)
                ELSE /\ Goto(p, next)
                     /\ UNCHANGED lock_file
    /\ UNCHANGED <<compose_file, persist, manifest, containers, now, args, idx,
                   start_utc, pre, created>>

StartPrestartThenFanout(p) ==
    HostStep(p, "start_prestart", "prestart", PassedInstant(p), "start_fanout")
StartPrestart(p) ==
    HostStep(p, "start_prestart", "prestart", PassedInstant(p), "start_bridge")
StartBridge(p) ==
    HostStep(p, "start_bridge", "bridge", NoInstant, "start_sysctl")
StartSysctl(p) ==
    HostStep(p, "start_sysctl", "sysctl", NoInstant, "start_signal")
StartSignal(p) ==
    HostStep(p, "start_signal", "start", PassedInstant(p), "start_fanout")

\* One iteration of the fan-out loop: skip 'host'; otherwise open init.log and
\* Popen the emane initializer, open biz_init.log and Popen the biz initializer.
\* The node's execution environment is reachable or not for both launches.
\* open(log_path, 'w') raises when persist/<node>/var/log is gone.
\* `if node == 'host': continue`
NoControlNode(node) == FALSE
IsControlNode(node) == node = "host"

\* log_path of a launch: ./persist/<node>/var/log/init.log or .../biz_init.log
LogPath(node, op) == <<node, IF op = "init" THEN "init.log" ELSE "biz_init.log">>

StartFanout(p) ==
    /\ pc[p] = "start_fanout"
    /\ IF idx[p] > Len(args[p].nodes)
          THEN /\ Exit(p, 0, "ok")
               /\ UNCHANGED <<idx, calls>>
          ELSE LET node == args[p].nodes[idx[p]] IN
               IF IsControlNode(node)
                  THEN /\ idx' = [idx EXCEPT ![p] = @ + 1]
                       /\ Goto(p, "start_fanout")
                       /\ UNCHANGED calls
                  ELSE IF node \notin persist
                  THEN /\ Exit(p, 1, "Traceback")
                       /\ UNCHANGED <<idx, calls>>
                  ELSE \E reach \in {"ok", "unreachable"} :
                         IF Popen(reach) # "spawned"
                            THEN /\ Exit(p, 1, "Traceback")
                                 /\ UNCHANGED <<idx, calls>>
                            ELSE /\ calls' = [calls EXCEPT ![p] =
                                       @ \o <<Call("init", node, PassedInstant(p), reach),
                                              Call("biz-init", node, PassedInstant(p), reach)>>]
                                 /\ idx' = [idx EXCEPT ![p] = @ + 1]
                                 /\ Goto(p, "start_fanout")
    /\ UNCHANGED <<fsvars, hostvars, now, args, start_utc, pre, created>>

\* -------------------------------------------------------------------- stop
InvokeStop(p, ready) ==
    /\ pc[p] \in ready
    /\ \E force \in BOOLEAN :
          Invoke(p, [NoArgs EXCEPT !.sub = "stop", !.force = force], "stop_compose")

\* `if not compose_file.exists(): ...; if not args['force']: sys.exit(1)`
StopComposeCheck(p) ==
    /\ pc[p] = "stop_compose"
    /\ IF ~compose_file /\ ~args[p].force
          THEN Exit(p, 1, "MissingGroupDefinition")
          ELSE Goto(p, "stop_down")
    /\ UNCHANGED <<fsvars, hostvars, now, args, idx, start_utc, calls, pre, created>>

\* Statement reached after each outcome of `docker compose down` (check=True):
\* CalledProcessError exits unless forced, any other exception always exits.
DownNext(result, force) ==
    CASE result = "ok" -> "stop_exists"
      [] result = "nonzero" -> IF force THEN "stop_control" ELSE "done"
      [] OTHER -> "done"

\* subprocess.run(['docker', 'compose', ..., 'down'], check=True); docker cannot
\* bring down a group whose definition file is missing.
StopDown(p) ==
    /\ pc[p] = "stop_down"
    /\ \E result \in IF compose_file THEN {"ok", "nonzero", "unlaunchable"}
                                      ELSE {"nonzero", "unlaunchable"} :
          /\ Log(p, Call("down", "", NoInstant, result))
          /\ containers' = (IF result = "ok" THEN FALSE ELSE containers)
          /\ IF DownNext(result, args[p].force) = "done"
                THEN Exit(p, 1, IF result = "nonzero"
                                   THEN "ContainerOperationFailed" ELSE "Error")
                ELSE Goto(p, DownNext(result, args[p].force))
    /\ UNCHANGED <<fsvars, sched_rt_runtime_us, hostnet, now, args, idx,
                   start_utc, pre, created>>

\* `if Path(args['lock_file']).exists():` guards the unlink.
UnlinkUnguarded(exists) == "stop_unlink"
UnlinkGuard(exists) == IF exists THEN "stop_unlink" ELSE "stop_control"

StopLockExists(p) ==
    /\ pc[p] = "stop_exists"
    /\ Goto(p, UnlinkGuard(lock_file))
    /\ UNCHANGED <<fsvars, hostvars, now, args, idx, start_utc, calls, pre, created>>

\* `Path(args['lock_file']).unlink()`: FileNotFoundError when the file has gone
\* since the check; it is caught by `except Exception`.
StopUnlink(p) ==
    /\ pc[p] = "stop_unlink"
    /\ IF lock_file
          THEN /\ lock_file' = FALSE
               /\ created' = 0
               /\ Log(p, Call("unlink", "", NoInstant, "ok"))
               /\ Goto(p, "stop_control")
          ELSE /\ UNCHANGED <<lock_file, created>>
               /\ Log(p, Call("unlink", "", NoInstant, "raised"))
               /\ Exit(p, 1, "Error")
    /\ UNCHANGED <<compose_file, persist, manifest, hostvars, now, args, idx,
                   start_utc, pre>>

\* subprocess.run(['sudo', 'host/control', 'stop', ...]) inside try
StopControl(p) ==
    /\ pc[p] = "stop_control"
    /\ \E result \in {"ok", "nonzero", "unlaunchable"} :
          /\ Log(p, Call("stop", "", NoInstant, result))
          /\ hostnet' = (IF result = "ok" THEN "idle" ELSE hostnet)
          /\ IF RunRaises(result)
                THEN Exit(p, 1, "HostOperationFailed")
                ELSE Goto(p, "stop_sysctl")
    /\ UNCHANGED <<fsvars, containers, sched_rt_runtime_us, now, args, idx,
                   start_utc, pre, created>>

\* subprocess.run(['sudo', 'sysctl', 'kernel.sched_rt_runtime_us=950000']),
\* outside any try: a launch failure is an uncaught exception.
StopSysctl(p) ==
    /\ pc[p] = "stop_sysctl"
    /\ \E result \in {"ok", "nonzero", "unlaunchable"} :
          /\ Log(p, Call("sysctl", "", NoInstant, result))
          /\ sched_rt_runtime_us' =
                (IF result = "ok" THEN SchedDefault ELSE sched_rt_runtime_us)
          /\ IF RunRaises(result)
                THEN Exit(p, 1, "Traceback")
                ELSE Exit(p, 0, "ok")
    /\ UNCHANGED <<fsvars, containers, hostnet, now, args, idx, start_utc, pre,
                   created>>

\* ------------------------------------------------------------------- build
InvokeBuild(p, ready) ==
    /\ pc[p] \in ready
    /\ \E force \in BOOLEAN :
          Invoke(p, [NoArgs EXCEPT !.sub = "build", !.force = force], "build_lock")

BuildLockCheck(p) ==
    /\ pc[p] = "build_lock"
    /\ IF BuildBlocked(lock_file, args[p].force)
          THEN Exit(p, 1, "LockHeld")
          ELSE Goto(p, "build_configuration")
    /\ UNCHANGED <<fsvars, hostvars, now, args, idx, start_utc, calls, pre, created>>

\* nodes = build_configuration(...): the Configuration Builder, which either
\* returns the nodes or raises (not caught).
BuildConfiguration(p) ==
    /\ pc[p] = "build_configuration"
    /\ \E result \in {"ok", "raised"} :
          /\ Log(p, Call("build_configuration", "", NoInstant, result))
          /\ IF result = "ok" THEN Exit(p, 0, "ok") ELSE Exit(p, 1, "Traceback")
    /\ UNCHANGED <<fsvars, hostvars, now, args, idx, start_utc, pre, created>>

\* ------------------------------------------------------------------- clean
\* nodes_include and nodes_exclude are the two sides of the node filter.
InvokeClean(p, ready) ==
    /\ pc[p] \in ready
    /\ \E force \in BOOLEAN, exclude \in Excludes :
       \E include \in {l \in NodeLists \cup {<<>>} : Range(l) \cap exclude = {}} :
          Invoke(p, [NoArgs EXCEPT !.sub = "clean", !.force = force,
                                   !.nodes = include, !.exclude = exclude],
                 "clean_lock")

CleanLockCheck(p) ==
    /\ pc[p] = "clean_lock"
    /\ IF CleanBlocked(lock_file, args[p].force)
          THEN Exit(p, 1, "LockHeld")
          ELSE Goto(p, "clean_wipe")
    /\ UNCHANGED <<fsvars, hostvars, now, args, idx, start_utc, calls, pre, created>>

\* `if not nodes_exclude:` -- the whole tree goes, not node by node.
WipeAllAlways(exclude) == TRUE
WipeAll(exclude) == exclude = {}

\* `Path(...).exists() and Path(...).is_dir()` before each rm -rf.
IsDir(node, existing) == node \in existing

\* Without an exclusion filter `sudo rm -rf persist` (when persist is there);
\* with one, an iteration of `for node in nodes_include: sudo rm -rf
\* persist/<node>` and, after the last one, nodes_to_manifest(nodes_exclude).
CleanWipe(p) ==
    /\ pc[p] = "clean_wipe"
    /\ IF WipeAll(args[p].exclude)
          THEN /\ persist' = {}
               /\ IF persist # {} THEN Log(p, Call("rm", "*", NoInstant, "ok"))
                                  ELSE UNCHANGED calls
               /\ Goto(p, "clean_configuration")
               /\ UNCHANGED <<manifest, idx>>
          ELSE IF idx[p] > Len(args[p].nodes)
          THEN /\ manifest' = args[p].exclude
               /\ Log(p, Call("nodes_to_manifest", "", NoInstant, "ok"))
               /\ Goto(p, "clean_configuration")
               /\ UNCHANGED <<persist, idx>>
          ELSE LET node == args[p].nodes[idx[p]] IN
               /\ persist' = persist \ {node}
               /\ IF IsDir(node, persist)
                     THEN Log(p, Call("rm", node, NoInstant, "ok"))
                     ELSE UNCHANGED calls
               /\ idx' = [idx EXCEPT ![p] = @ + 1]
               /\ Goto(p, "clean_wipe")
               /\ UNCHANGED manifest
    /\ UNCHANGED <<lock_file, compose_file, hostvars, now, args, start_utc,
                   pre, created>>

\* clean_configuration(nodes_include, manifest) inside try
CleanConfiguration(p) ==
    /\ pc[p] = "clean_configuration"
    /\ \E result \in {"ok", "raised"} :
          /\ Log(p, Call("clean_configuration", "", NoInstant, result))
          /\ IF result = "ok" THEN Exit(p, 0, "ok")
                              ELSE Exit(p, 1, "ConfigurationBuilderFailed")
    /\ UNCHANGED <<fsvars, hostvars, now, args, idx, start_utc, pre, created>>

\* ---------------------------------------------------------- specifications
Ready == {"idle"}

Next ==
    \/ Tick
    \/ \E p \in SeqProcs : Reap(p)
    \/ \E p \in SeqProcs : InvokeStart(p, Ready, NodeLists)
    \/ \E p \in SeqProcs : InvokeStop(p, Ready)
    \/ \E p \in SeqProcs : InvokeBuild(p, Ready)
    \/ \E p \in SeqProcs : InvokeClean(p, Ready)
    \/ \E p \in SeqProcs : StartLockCheck(p)
    \/ \E p \in SeqProcs : StartMkdir(p)
    \/ \E p \in SeqProcs : StartComposeCheck(p)
    \/ \E p \in SeqProcs : StartUp(p)
    \/ \E p \in SeqProcs : StartTouch(p)
    \/ \E p \in SeqProcs : StartTime(p)
    \/ \E p \in SeqProcs : StartPrestart(p)
    \/ \E p \in SeqProcs : StartBridge(p)
    \/ \E p \in SeqProcs : StartSysctl(p)
    \/ \E p \in SeqProcs : StartSignal(p)
    \/ \E p \in SeqProcs : StartFanout(p)
    \/ \E p \in SeqProcs : StopComposeCheck(p)
    \/ \E p \in SeqProcs : StopDown(p)
    \/ \E p \in SeqProcs : StopLockExists(p)
    \/ \E p \in SeqProcs : StopUnlink(p)
    \/ \E p \in SeqProcs : StopControl(p)
    \/ \E p \in SeqProcs : StopSysctl(p)
    \/ \E p \in SeqProcs : BuildLockCheck(p)
    \/ \E p \in SeqProcs : BuildConfiguration(p)
    \/ \E p \in SeqProcs : CleanLockCheck(p)
    \/ \E p \in SeqProcs : CleanWipe(p)
    \/ \E p \in SeqProcs : CleanConfiguration(p)

Spec == Init /\ [][Next]_vars

\* Two start commands issued from two shells at once, each run to its end.
ConcNodeLists == {<<"host", "a">>}

ConcNext ==
    \/ \E p \in Procs : InvokeStart(p, Ready, ConcNodeLists)
    \/ \E p \in Procs : StartLockCheck(p)
    \/ \E p \in Procs : StartMkdir(p)
    \/ \E p \in Procs : StartComposeCheck(p)
    \/ \E p \in Procs : StartUp(p)
    \/ \E p \in Procs : StartTouch(p)
    \/ \E p \in Procs : StartTime(p)
    \/ \E p \in Procs : StartPrestart(p)
    \/ \E p \in Procs : StartBridge(p)
    \/ \E p \in Procs : StartSysctl(p)
    \/ \E p \in Procs : StartSignal(p)
    \/ \E p \in Procs : StartFanout(p)

ConcSpec == Init /\ [][ConcNext]_vars

\* ------------------------------------------------------------- properties
Ops(p) == {calls[p][i].op : i \in DOMAIN calls[p]}
Has(p, op, result) ==
    \E i \in DOMAIN calls[p] : calls[p][i].op = op /\ calls[p][i].result = result
Running(p, sub) == args[p].sub = sub
Ended(p, sub) == args[p].sub = sub /\ pc[p] = "done"
HostOps == {"prestart", "bridge", "sysctl", "start"}
Workers(p) == Range(args[p].nodes) \ {"host"}

\* C1: with invocations run one after another, at most one non-forced start
\* creates the lock between two lock removals by stop, and a non-forced start
\* invoked while the lock exists ends at the lock check: it exits non-zero with
\* no operation performed and the lock still in place.
C1_MutualExclusion ==
    /\ created <= 1
    /\ \A p \in Procs :
          (Running(p, "start") /\ ~args[p].force /\ pre[p]) =>
             /\ pc[p] \in {"start_lock", "done"}
             /\ calls[p] = <<>>
             /\ lock_file
             /\ pc[p] = "done" => status[p] = [code |-> 1, why |-> "LockHeld"]

C1_Witness ==
    \E p \in Procs :
       /\ Ended(p, "start") /\ ~args[p].force /\ pre[p]
       /\ status[p].why = "LockHeld"
       /\ created = 1

\* C2: two non-forced start invocations whose steps interleave never both get
\* past the lock check to bring the containers up and record the lock.
C2_Serialized ==
    \A p, q \in Procs :
       (p # q /\ Running(p, "start") /\ Running(q, "start")
            /\ ~args[p].force /\ ~args[q].force) =>
          ~(Has(p, "up", "ok") /\ Has(p, "touch", "ok")
              /\ Has(q, "up", "ok") /\ Has(q, "touch", "ok"))

\* C3: a start invoked with no lock present that has not (yet) had a
\* successful bring-up leaves no lock, also when it exits; and the lock is
\* touched only after `docker compose up` has returned success.
C3_LockOrdering ==
    \A p \in Procs :
       Running(p, "start") =>
          /\ (~pre[p] /\ ~Has(p, "up", "ok")) => ~lock_file
          /\ \A j \in DOMAIN calls[p] :
                calls[p][j].op = "touch" =>
                   \E i \in 1..(j - 1) :
                      calls[p][i].op = "up" /\ calls[p][i].result = "ok"

C3_Witness ==
    \E p \in Procs :
       /\ Ended(p, "start") /\ ~pre[p]
       /\ status[p].code = 1
       /\ Has(p, "up", "nonzero")
       /\ ~lock_file

\* C4: a forced stop whose `docker compose down` failed and that ran to its end
\* has invoked host/control stop, has restored the scheduling constraint and
\* has left no lock file.
C4_ForcedStopRemovesLock ==
    \A p \in Procs :
       (Ended(p, "stop") /\ args[p].force /\ Has(p, "down", "nonzero")
            /\ status[p].code = 0) =>
          /\ "stop" \in Ops(p)
          /\ "sysctl" \in Ops(p)
          /\ ~lock_file

\* C5: a start computes start_utc at most once, after the lock was touched and
\* before any host operation, and every host script and node initializer that
\* takes the instant is handed exactly that value.
C5_TimestampConsistency ==
    \A p \in Procs :
       Running(p, "start") =>
          /\ Cardinality({i \in DOMAIN calls[p] : calls[p][i].op = "strftime"}) <= 1
          /\ \A i \in DOMAIN calls[p] :
                /\ calls[p][i].op = "strftime" =>
                      /\ calls[p][i].utc = start_utc[p]
                      /\ \E k \in 1..(i - 1) :
                            calls[p][k].op = "touch" /\ calls[p][k].result = "ok"
                      /\ \A k \in 1..(i - 1) : calls[p][k].op \notin HostOps
                /\ calls[p][i].op \in {"prestart", "start", "init", "biz-init"} =>
                      /\ calls[p][i].utc # NoInstant
                      /\ \E k \in 1..(i - 1) :
                            /\ calls[p][k].op = "strftime"
                            /\ calls[p][k].utc = calls[p][i].utc

C5_Witness ==
    \E p \in Procs :
       /\ Ended(p, "start") /\ status[p].code = 0
       /\ Workers(p) # {}
       /\ \A n \in Workers(p) : \E i \in DOMAIN calls[p] :
             calls[p][i].op = "biz-init" /\ calls[p][i].node = n
       /\ "prestart" \in Ops(p) /\ "start" \in Ops(p)
       /\ strftime_gmtime(now + args[p].delay) # start_utc[p]

\* C6: once the fan-out loop is entered, every non-control node the loop has
\* passed has both of its launches whatever happened at the nodes before it,
\* and a start that went through the loop exits 0 with both launches made for
\* every non-control node.
C6_FanoutIsolation ==
    \A p \in Procs :
       (Running(p, "start") /\ "start" \in Ops(p) /\ ~Has(p, "start", "unlaunchable")) =>
          /\ pc[p] \in {"start_fanout", "done"}
          /\ \A k \in 1..Len(args[p].nodes) :
                (args[p].nodes[k] # "host" /\ (k < idx[p] \/ pc[p] = "done")) =>
                   \A op \in {"init", "biz-init"} :
                      \E i \in DOMAIN calls[p] :
                         calls[p][i].op = op /\ calls[p][i].node = args[p].nodes[k]
          /\ pc[p] = "done" => status[p] = [code |-> 0, why |-> "ok"]

C6_Witness ==
    \E p \in Procs :
       /\ Ended(p, "start") /\ status[p].code = 0
       /\ \E i, j \in DOMAIN calls[p] :
             /\ i < j
             /\ calls[p][i].op = "init" /\ calls[p][i].result = "unreachable"
             /\ calls[p][j].op = "biz-init" /\ calls[p][j].result = "ok"
             /\ calls[p][i].node # calls[p][j].node

\* C7: after the wipe step of a clean with an exclusion filter, only included
\* nodes have been removed, no included node has a workspace left, no excluded
\* node has been removed, and the manifest holds the excluded set; without a
\* filter no workspace is left at all.
Wiped(p) == {calls[p][i].node : i \in {k \in DOMAIN calls[p] : calls[p][k].op = "rm"}}

C7_PartialClean ==
    \A p \in Procs :
       (Running(p, "clean") /\ "clean_configuration" \in Ops(p) \cup {pc[p]}) =>
          IF args[p].exclude # {}
             THEN /\ Wiped(p) \subseteq Range(args[p].nodes)
                  /\ persist \cap Range(args[p].nodes) = {}
                  /\ Wiped(p) \cap args[p].exclude = {}
                  /\ manifest = args[p].exclude
                  /\ Has(p, "nodes_to_manifest", "ok")
             ELSE persist = {}

C7_Witness ==
    \E p \in Procs :
       /\ Ended(p, "clean")
       /\ args[p].exclude = {"b"} /\ Range(args[p].nodes) = {"host", "a"}
       /\ Wiped(p) = {"host", "a"}
       /\ persist = {"b"}
       /\ manifest = {"b"}

\* C8: a build, start or clean that ends with LockHeld, and a start that ends
\* with MissingGroupDefinition, has created no workspace (and performed no
\* other operation).
C8_EagerChecks ==
    \A p \in Procs :
       (pc[p] = "done" /\ args[p].sub \in {"build", "start", "clean"}
            /\ status[p].why \in {"LockHeld", "MissingGroupDefinition"}) =>
          \A i \in DOMAIN calls[p] : calls[p][i].result \notin {"ok", "created"}

\* C9: an invocation of build, start or clean made while the lock exists is
\* blocked at the lock check when not forced, gets past the check when forced,
\* and in both cases leaves the lock in place.
LockCheckPc == [build |-> "build_lock", start |-> "start_lock", clean |-> "clean_lock"]

C9_ForceBypass ==
    \A p \in Procs :
       (args[p].sub \in {"build", "start", "clean"} /\ pre[p]) =>
          /\ lock_file
          /\ ~args[p].force =>
                /\ pc[p] \in {LockCheckPc[args[p].sub], "done"}
                /\ calls[p] = <<>>
                /\ pc[p] = "done" => status[p] = [code |-> 1, why |-> "LockHeld"]
          /\ args[p].force => status[p].why # "LockHeld"

C9_Witness ==
    \E p \in Procs :
       /\ Ended(p, "clean") /\ args[p].force /\ pre[p]
       /\ status[p].code = 0
       /\ "rm" \in Ops(p)
       /\ lock_file

\* C10: in a start, a host preparation sub-step that did not succeed is the
\* last operation of the invocation, which has exited non-zero.
C10_HostFailureAborts ==
    \A p \in Procs :
       Running(p, "start") =>
          \A i \in DOMAIN calls[p] :
             (calls[p][i].op \in HostOps /\ calls[p][i].result # "ok") =>
                /\ i = Len(calls[p])
                /\ pc[p] = "done"
                /\ status[p].code = 1

\* C11: a stop invoked with no lock file never fails at the lock removal (it
\* does not even attempt the unlink), and what a stop whose down succeeded
\* leaves behind does not depend on what it found: no lock, no containers, the
\* host state its release and sysctl steps set, and exit 0 when those two
\* steps could be launched -- so a second stop ends where the first one did.
C11_IdempotentRelease ==
    \A p \in Procs :
       Running(p, "stop") =>
          /\ ~pre[p] =>
                /\ ~lock_file
                /\ "unlink" \notin Ops(p)
                /\ pc[p] # "stop_unlink"
          /\ ~Has(p, "unlink", "raised")
          /\ (pc[p] = "done" /\ Has(p, "down", "ok")) =>
                /\ ~lock_file
                /\ ~containers
                /\ Has(p, "stop", "ok") => hostnet = "idle"
                /\ Has(p, "sysctl", "ok") => sched_rt_runtime_us = SchedDefault
                /\ (~Has(p, "stop", "unlaunchable") /\ ~Has(p, "sysctl", "unlaunchable"))
                      => status[p] = [code |-> 0, why |-> "ok"]

C11_Witness ==
    \E p \in Procs :
       /\ Ended(p, "stop") /\ ~pre[p]
       /\ Has(p, "down", "ok")
       /\ status[p].code = 0
       /\ persist # {}
       /\ ~lock_file /\ ~containers

\* C12: in a stop the operations come in the order down, host/control stop,
\* sysctl, unlink: the lock file is unlinked only after host/control stop and
\* the sysctl have returned.
StopRank == [down |-> 1, stop |-> 2, sysctl |-> 3, unlink |-> 4]

C12_StopOrder ==
    \A p \in Procs :
       Running(p, "stop") =>
          \A i, j \in DOMAIN calls[p] :
             i < j => StopRank[calls[p][i].op] < StopRank[calls[p][j].op]

\* C13: the operations of a start come in the order mkdir (every node), up,
\* touch, strftime, prestart, bridge, sysctl, control start, initializer
\* launches; each is made at most once (launches: once per node and role), only
\* after the one before it has returned, and nothing precedes the lock check.
StartRank == [mkdir |-> 1, up |-> 2, touch |-> 3, strftime |-> 4, prestart |-> 5,
              bridge |-> 6, sysctl |-> 7, start |-> 8, init |-> 9]
RankOf(c) == IF c.op = "biz-init" THEN 9 ELSE StartRank[c.op]

C13_StartOrder ==
    \A p \in Procs :
       Running(p, "start") =>
          LET c == calls[p]
              n == Len(args[p].nodes)
          IN /\ pc[p] = "start_lock" => c = <<>>
             /\ \A i \in DOMAIN c :
                   /\ i <= n => c[i].op = "mkdir" /\ c[i].node = args[p].nodes[i]
                   /\ i > n => RankOf(c[i]) > 1
                   /\ i = n + 1 => c[i].op = "up"
                   /\ i > 1 =>
                         /\ RankOf(c[i - 1]) <= RankOf(c[i])
                         /\ RankOf(c[i]) <= RankOf(c[i - 1]) + 1
                         /\ c[i - 1].result \notin {"raised", "unlaunchable"}
                         /\ RankOf(c[i - 1]) = RankOf(c[i]) => RankOf(c[i]) \in {1, 9}
                         /\ (RankOf(c[i]) \in 2..8 /\ c[i - 1].op # "mkdir")
                               => RankOf(c[i]) = RankOf(c[i - 1]) + 1
                         /\ c[i].op = "biz-init" =>
                               c[i - 1].op = "init" /\ c[i - 1].node = c[i].node
                         /\ (c[i].op = "init" /\ c[i - 1].op # "start") =>
                               c[i - 1].op = "biz-init" /\ c[i - 1].node # c[i].node

C13_Witness ==
    \E p \in Procs :
       /\ Ended(p, "start") /\ status[p].code = 0
       /\ Len(args[p].nodes) = 3
       /\ Len(calls[p]) = 14
       /\ calls[p][14].op = "biz-init"
       /\ calls[p][10].op = "start"

\* C14: a start whose bring-up succeeded never runs down or unlink; the
\* containers stay up and, once touched, the lock stays: a start that fails in
\* host preparation exits 1 with containers running and the lock held, and only
\* the unlink step of a stop ever takes the lock file away.
C14_NoRollback ==
    [][/\ \A p \in Procs :
             (Running(p, "start") /\ Has(p, "up", "ok")) =>
                /\ containers /\ containers'
                /\ "down" \notin Ops(p) /\ "unlink" \notin Ops(p)
                /\ Has(p, "touch", "ok") => lock_file /\ lock_file'
                /\ status[p].why = "HostOperationFailed" =>
                      /\ status[p].code = 1
                      /\ Has(p, "touch", "ok")
       /\ (lock_file /\ ~lock_file') =>
             \E p \in Procs : Running(p, "stop") /\ pc[p] = "stop_unlink"]_vars

C14_Witness ==
    \E p \in Procs :
       /\ Ended(p, "start") /\ ~pre[p]
       /\ status[p] = [code |-> 1, why |-> "HostOperationFailed"]
       /\ Has(p, "bridge", "unlaunchable")
       /\ containers /\ lock_file

\* C15: no step of a stop, build or start invocation takes a workspace away:
\* whatever its outcome, forced or not, every persist/<node> that exists
\* before a step of such an invocation exists after it.
C15_WorkspacesKept ==
    [][(\E p \in Procs : args[p].sub \in {"stop", "build", "start"})
          => persist \subseteq persist']_vars

C15_Witness ==
    \E p \in Procs :
       /\ Ended(p, "stop") /\ args[p].force
       /\ Has(p, "down", "ok") /\ Has(p, "unlink", "ok")
       /\ persist = {"host", "a", "b"}

\* C16: a forced stop never ends at the down step: when down returned a
\* failure status, could not be launched, or the compose file is missing, it
\* has invoked host/control stop by the time it exits; a stop without force
\* ends there with a non-zero status and host/control stop not invoked.
DownFailed(p) == Has(p, "down", "nonzero") \/ Has(p, "down", "unlaunchable")

C16_ForcedDown ==
    \A p \in Procs :
       Running(p, "stop") =>
          /\ (args[p].force /\ pc[p] = "done" /\ (DownFailed(p) \/ ~compose_file))
                => "stop" \in Ops(p)
          /\ (~args[p].force
                /\ (DownFailed(p) \/ (~compose_file /\ pc[p] # "stop_compose")))
                => /\ pc[p] = "done"
                   /\ status[p].code = 1
                   /\ "stop" \notin Ops(p)

\* C17 (as claimed): a stop that got past the down step has, when it exits, run
\* the sysctl that restores kernel.sched_rt_runtime_us, whatever the host
\* release step did, and the relaxed value is no longer in effect.
PastDown(p) == Has(p, "down", "ok") \/ (args[p].force /\ Has(p, "down", "nonzero"))

Launches(p) == {i \in DOMAIN calls[p] : calls[p][i].op \in {"init", "biz-init"}}

C18_FanoutShape ==
    \A p \in Procs :
       (Running(p, "start") /\ pc[p] \in {"start_fanout", "done"}
            /\ "start" \in Ops(p)) =>
          LET c == calls[p] IN
          /\ \A i \in Launches(p) : c[i].node # "host"
          /\ "host" \in Range(args[p].nodes) =>
                /\ "host" \in persist
                /\ \E i \in DOMAIN c : c[i].op = "mkdir" /\ c[i].node = "host"
          /\ \A i, j \in Launches(p) :
                i # j => LogPath(c[i].node, c[i].op) # LogPath(c[j].node, c[j].op)
          /\ (pc[p] = "done" /\ status[p].code = 0) =>
                /\ \A n \in Workers(p), op \in {"init", "biz-init"} :
                      \E i \in Launches(p) : c[i].node = n /\ c[i].op = op
                /\ Cardinality(Launches(p)) = 2 * Cardinality(Workers(p))

C18_Witness ==
    \E p \in Procs :
       /\ Ended(p, "start") /\ status[p].code = 0
       /\ args[p].nodes = <<"host", "a", "b">>
       /\ Cardinality(Launches(p)) = 4
       /\ Has(p, "init", "unreachable")
       /\ "host" \in persist

\* C19: the lock file changes only in the touch step of a start whose
\* `docker compose up` succeeded, which creates it, and in the unlink step of
\* a stop, which deletes it; while a build or a clean runs, forced or not and
\* whether it ends well or not, the lock file stays as it was.
C19_LockFrame ==
    [][/\ (~lock_file /\ lock_file') =>
             \E p \in Procs : /\ Running(p, "start") /\ pc[p] = "start_touch"
                              /\ pc'[p] # pc[p]
                              /\ Has(p, "up", "ok")
       /\ (lock_file /\ ~lock_file') =>
             \E p \in Procs : /\ Running(p, "stop") /\ pc[p] = "stop_unlink"
                              /\ pc'[p] # pc[p]
       /\ \A p \in Procs :
             (Running(p, "build") \/ Running(p, "clean")) =>
                /\ lock_file' = lock_file
                /\ lock_file = pre[p]]_vars

C19_Witness ==
    \E p \in Procs :
       /\ Ended(p, "build") /\ args[p].force /\ pre[p]
       /\ Has(p, "build_configuration", "raised")
       /\ status[p].code = 1
       /\ lock_file
====
